---- MODULE Spec2Model ----
(***************************************************************************)
(* Prefix-code engine of File_compression_sys (src/Main.py): HuffmanTree,   *)
(* Encoding and the text / image / video container operations of           *)
(* Compresion.                                                             *)
(*                                                                         *)
(* Symbols are Python characters, modelled by their code point.  A Python  *)
(* str of '0'/'1' digits is a sequence of the one-character strings "0"    *)
(* and "1"; a bitarray is a sequence of the integers 0 and 1.  A dict is a *)
(* sequence of <<key, value>> pairs in insertion order.  Node objects live *)
(* in a heap (a sequence of records) and are referred to by their index.   *)
(***************************************************************************)
EXTENDS Integers, Sequences, FiniteSets, TLC

VARIABLES
    pc,               \* control position of the running call
    op,               \* the operation invoked last
    outcome,          \* how the last operation ended ("ok" or the exception raised)
    symbols,          \* the symbol stream handed to the HuffmanTree
    heap,             \* the Node objects of the HuffmanTree
    root,             \* HuffmanTree.root
    merges,           \* iterations of the while loop of build_tree
    code_table,       \* HuffmanTree.code_table
    encoded_text,     \* the result of HuffmanTree.encode
    decode_table,     \* Encoding.decode: parameter code_table
    encoded_message,  \* Encoding.decode: parameter / local encoded_message
    decoded_message,  \* Encoding.decode: local decoded_message
    passes,           \* iterations of the while loop of Encoding.decode
    result,           \* the value Encoding.decode returned to a direct caller
    frame,            \* locals a decompress operation keeps across decode
    txt,              \* content of <name>.txt
    bin,              \* content of <name>.bin: <<>> (no file) or <<container>>
    origin,           \* what the compress call that wrote <name>.bin consumed
    image_out         \* what decompress_image handed to ImagesToTxt.text_to_image

vars == <<pc, op, outcome, symbols, heap, root, merges, code_table, encoded_text,
          decode_table, encoded_message, decoded_message, passes, result, frame,
          txt, bin, origin, image_out>>

treeVars == <<symbols, heap, root, merges, code_table, encoded_text>>
decodeVars == <<decode_table, encoded_message, decoded_message, passes>>
fileVars == <<txt, bin, origin, image_out>>

-----------------------------------------------------------------------------
(* Bounds of the model *)

MaxLen == 4          \* longest symbol stream given to the HuffmanTree directly
MaxFileLen == 3      \* longest text in <name>.txt
MaxVideoLen == 1     \* longest symbol stream of a video
MaxBytes == 8        \* longest raw image byte stream
MaxBits == 4         \* longest bit string given to decode directly
MaxCodeLen == 2      \* longest codeword of a table given to decode directly
MaxEntries == 2      \* most entries of a table given to decode directly
MaxPasses == 6       \* most iterations of decode's while loop that are followed

Alphabet == {97, 98, 99, 100}
FileAlphabet == {97, 98, 99}
ByteVals == {255}

RECURSIVE SeqsUpTo(_, _)
SeqsUpTo(S, n) ==
    IF n = 0 THEN {<<>>}
    ELSE LET shorter == SeqsUpTo(S, n - 1)
         IN  shorter \cup {Append(s, x) : s \in {t \in shorter : Len(t) = n - 1}, x \in S}

Range(s) == {s[i] : i \in DOMAIN s}

-----------------------------------------------------------------------------
(* Python values *)

None == -1

Node(symbol, weight) ==
    [symbol |-> symbol, weight |-> weight, left |-> None, right |-> None]

DictHas(d, k) == \E i \in DOMAIN d : d[i][1] = k

DictGet(d, k) == d[CHOOSE i \in DOMAIN d : d[i][1] = k][2]

DictSet(d, k, v) ==
    IF DictHas(d, k)
    THEN [i \in DOMAIN d |-> IF d[i][1] = k THEN <<k, v>> ELSE d[i]]
    ELSE Append(d, <<k, v>>)

StartsWith(s, p) == Len(p) <= Len(s) /\ SubSeq(s, 1, Len(p)) = p

DropFirst(s, n) == SubSeq(s, n + 1, Len(s))

-----------------------------------------------------------------------------
(* HuffmanTree *)

\* build_tree, lines 43-47: the count of every symbol, in order of first appearance
RECURSIVE CountSymbols(_, _, _)
CountSymbols(syms, i, symbol_counts) ==
    IF i > Len(syms) THEN symbol_counts
    ELSE LET symbol == syms[i]
             zeroed == IF ~DictHas(symbol_counts, symbol)
                       THEN DictSet(symbol_counts, symbol, 0)
                       ELSE symbol_counts
         IN  CountSymbols(syms, i + 1, DictSet(zeroed, symbol, DictGet(zeroed, symbol) + 1))

\* variant: the count is not passed, every leaf keeps Node's default weight of 1
LeafNodesDefaultWeight(symbol_counts) ==
    [i \in DOMAIN symbol_counts |-> Node(symbol_counts[i][1], 1)]

\* build_tree, lines 49-52: one leaf per counted symbol
LeafNodes(symbol_counts) ==
    [i \in DOMAIN symbol_counts |-> Node(symbol_counts[i][1], symbol_counts[i][2])]

\* the parent build_tree makes of the two front nodes, lines 57-59
ParentNode(h, left, right) ==
    [symbol |-> None, weight |-> h[left].weight + h[right].weight,
     left |-> left, right |-> right]

\* build_tree, lines 54-60: merge the two front nodes, append the parent at the back
RECURSIVE MergeLoop(_, _, _)
MergeLoop(h, nodes, n) ==
    IF Len(nodes) > 1
    THEN LET left == nodes[1]
             right == nodes[2]
             h2 == Append(h, ParentNode(h, left, right))
         IN  MergeLoop(h2, Append(DropFirst(nodes, 2), Len(h2)), n + 1)
    ELSE [heap |-> h, nodes |-> nodes, merges |-> n]

\* build_tree, line 62: nodes[0] of an empty work list raises IndexError and leaves
\* root unset
TakeRoot(done) ==
    IF done.nodes = <<>>
    THEN [heap |-> done.heap, root |-> None, merges |-> done.merges,
          raised |-> "IndexError"]
    ELSE [heap |-> done.heap, root |-> done.nodes[1], merges |-> done.merges,
          raised |-> "none"]

\* build_tree, lines 49-60: the work list starts as the leaves, in dict order
MergeLeaves(leaves) == MergeLoop(leaves, [i \in DOMAIN leaves |-> i], 0)

BuildTree(syms) == TakeRoot(MergeLeaves(LeafNodes(CountSymbols(syms, 1, <<>>))))

\* variant: the right branch appends "0" as the left branch does
RECURSIVE GenerateCodeTableSameDigit(_, _, _, _)
GenerateCodeTableSameDigit(h, node, prefix, table) ==
    IF h[node].left = None /\ h[node].right = None
    THEN DictSet(table, h[node].symbol, prefix)
    ELSE LET afterLeft == IF h[node].left # None
                          THEN GenerateCodeTableSameDigit(h, h[node].left,
                                                          Append(prefix, "0"), table)
                          ELSE table
         IN  IF h[node].right # None
             THEN GenerateCodeTableSameDigit(h, h[node].right, Append(prefix, "0"),
                                             afterLeft)
             ELSE afterLeft

\* _generate_code_table: depth-first, "0" to the left, "1" to the right
RECURSIVE GenerateCodeTable(_, _, _, _)
GenerateCodeTable(h, node, prefix, table) ==
    IF h[node].left = None /\ h[node].right = None
    THEN DictSet(table, h[node].symbol, prefix)
    ELSE LET afterLeft == IF h[node].left # None
                          THEN GenerateCodeTable(h, h[node].left, Append(prefix, "0"), table)
                          ELSE table
         IN  IF h[node].right # None
             THEN GenerateCodeTable(h, h[node].right, Append(prefix, "1"), afterLeft)
             ELSE afterLeft

\* encode: the codewords of the symbols, concatenated in input order
RECURSIVE Encode(_, _, _)
Encode(syms, table, i) ==
    IF i > Len(syms) THEN <<>>
    ELSE DictGet(table, syms[i]) \o Encode(syms, table, i + 1)

\* encode raises KeyError on a symbol the table does not hold
EncodeRaises(syms, table) == \E i \in DOMAIN syms : ~DictHas(table, syms[i])

-----------------------------------------------------------------------------
(* Encoding *)

\* adaptive_huffman_encoding, lines 110-111: encode and return, given the table
EncodeWithTable(text, tree, table) ==
    [heap |-> tree.heap, root |-> tree.root, merges |-> tree.merges,
     code_table |-> table, encoded_text |-> Encode(text, table, 1), raised |-> "none"]

\* adaptive_huffman_encoding, lines 108-111, given the tree build_tree left;
\* an exception of build_tree ends the call
EncodeWithTree(text, tree) ==
    IF tree.raised = "none"
    THEN EncodeWithTable(text, tree, GenerateCodeTable(tree.heap, tree.root, <<>>, <<>>))
    ELSE [heap |-> tree.heap, root |-> tree.root, merges |-> tree.merges,
          code_table |-> <<>>, encoded_text |-> <<>>, raised |-> tree.raised]

\* variant: an empty text is answered with empty bits and an empty table
AdaptiveHuffmanEncodingEmptyOk(text) ==
    IF text = <<>>
    THEN [heap |-> <<>>, root |-> None, merges |-> 0, code_table |-> <<>>,
          encoded_text |-> <<>>, raised |-> "none"]
    ELSE EncodeWithTree(text, BuildTree(text))

\* adaptive_huffman_encoding: build_tree, generate_code_table, encode
AdaptiveHuffmanEncoding(text) == EncodeWithTree(text, BuildTree(text))

\* decode, lines 116-119: one run of the for loop over the table, without a break
RECURSIVE DecodePass(_, _, _, _)
DecodePass(message, decoded, table, i) ==
    IF i > Len(table)
    THEN [encoded_message |-> message, decoded_message |-> decoded]
    ELSE LET character == table[i][1]
             code == table[i][2]
         IN  IF StartsWith(message, code)
             THEN DecodePass(DropFirst(message, Len(code)), Append(decoded, character),
                             table, i + 1)
             ELSE DecodePass(message, decoded, table, i + 1)

-----------------------------------------------------------------------------
(* Conversions used by Compresion *)

\* int(i) of one digit character
IntOfDigit(ch) == IF ch = "1" THEN 1 ELSE 0

\* variant: the bits are stored as whole bytes, zero-filled to a multiple of 8
ToBitarrayBytePadded(text) ==
    [i \in 1..(8 * ((Len(text) + 7) \div 8)) |->
        IF i <= Len(text) THEN IntOfDigit(text[i]) % 2 ELSE 0]

\* bitarray([int(i) & 1 for i in encoded_text])
ToBitarray(text) == [i \in DOMAIN text |-> IntOfDigit(text[i]) % 2]

\* bitarray.to01()
To01(bits) == [i \in DOMAIN bits |-> IF bits[i] = 1 THEN "1" ELSE "0"]

\* format(byte, '08b')
Format08b(byte) == [i \in 1..8 |-> IF (byte \div (2 ^ (8 - i))) % 2 = 1 THEN "1" ELSE "0"]

\* ''.join(format(byte, '08b') for byte in binarios)
RECURSIVE JoinBits(_, _)
JoinBits(binarios, i) ==
    IF i > Len(binarios) THEN <<>>
    ELSE Format08b(binarios[i]) \o JoinBits(binarios, i + 1)

\* variant: the conditional is left out, a multiple of 7 gets 7 padding bits
PaddinfNoZeroCase(cadena_bits) == 7 - (Len(cadena_bits) % 7)

\* 7 - len(cadena_bits) % 7 if len(cadena_bits) % 7 != 0 else 0
Paddinf(cadena_bits) ==
    IF Len(cadena_bits) % 7 # 0 THEN 7 - (Len(cadena_bits) % 7) ELSE 0

\* cadena_bits + "0" * paddinf
PadBits(cadena_bits, paddinf) == cadena_bits \o [i \in 1..paddinf |-> "0"]

\* int(digits, 2)
RECURSIVE IntBase2(_)
IntBase2(digits) ==
    IF digits = <<>> THEN 0
    ELSE 2 * IntBase2(SubSeq(digits, 1, Len(digits) - 1)) + IntOfDigit(digits[Len(digits)])

\* text[i:j] with 0-based bounds, clipped to the text as Python clips a slice
Slice(text, i, j) ==
    SubSeq(text, i + 1, IF j < Len(text) THEN j ELSE Len(text))

\* range(0, len(binarios), 7): the start offsets the generator of line 158 visits
GroupStarts(binarios) == {i \in 0..(Len(binarios) - 1) : i % 7 = 0}

\* ''.join(chr(int(cadena_bits[i:i+7], 2)) for i in range(0, len(binarios), 7))
RECURSIVE GroupSymbols(_, _, _)
GroupSymbols(cadena_bits, binarios, i) ==
    IF i \notin GroupStarts(binarios) THEN <<>>
    ELSE <<IntBase2(Slice(cadena_bits, i, i + 7))>>
         \o GroupSymbols(cadena_bits, binarios, i + 7)

\* decoded_text[:-padding] when padding > 0
StripPadding(text, padding) ==
    IF padding > 0
    THEN SubSeq(text, 1, IF Len(text) > padding THEN Len(text) - padding ELSE 0)
    ELSE text

\* str.encode("utf-8") of the characters the model draws (code points below 2048)
RECURSIVE Utf8Encode(_, _)
Utf8Encode(text, i) ==
    IF i > Len(text) THEN <<>>
    ELSE (IF text[i] < 128 THEN <<text[i]>>
          ELSE <<192 + (text[i] \div 64), 128 + (text[i] % 64)>>)
         \o Utf8Encode(text, i + 1)

\* the tuple pickle.dump writes: (table, bits) followed by the variant's metadata
Container(table, bits, meta) == [code_table |-> table, bits |-> bits, meta |-> meta]

TupleLen(container) == 2 + Len(container.meta)

NoFrame == [width |-> 0, height |-> 0, channels |-> 0, padding |-> 0, cadena_bits |-> <<>>]

NoImage == [width |-> 0, height |-> 0, channels |-> 0, data |-> <<>>]

NoOrigin == [kind |-> "none", src |-> <<>>]

-----------------------------------------------------------------------------
(* Inputs *)

CoreInputs == SeqsUpTo(Alphabet, MaxLen)

\* texts in which a character appears only after every smaller one has appeared:
\* one text of each pattern of equal and different characters
FirstAppearanceOrdered(s) ==
    \A i \in DOMAIN s : \A x \in FileAlphabet :
        x < s[i] => \E j \in 1..(i - 1) : s[j] = x

FileTexts == {s \in SeqsUpTo(FileAlphabet, MaxFileLen) : FirstAppearanceOrdered(s)}

BitStrings == SeqsUpTo({"0", "1"}, MaxBits)

VideoTexts == {s \in SeqsUpTo(FileAlphabet, MaxVideoLen) : FirstAppearanceOrdered(s)}

\* raw image byte streams: the first byte varies, the rest are zero bytes
ImageBytes ==
    {[i \in 1..n |-> IF i = 1 THEN b1 ELSE 0] : n \in 0..MaxBytes, b1 \in ByteVals}

\* tables a caller may hand to decode: distinct keys, any codewords
TableEntries == FileAlphabet \X SeqsUpTo({"0", "1"}, MaxCodeLen)

DecodeTables ==
    {t \in SeqsUpTo(TableEntries, MaxEntries) :
        \A i, j \in DOMAIN t : i # j => t[i][1] # t[j][1]}

-----------------------------------------------------------------------------
(* Initial states *)

\* HuffmanTree.__init__
TreeInit ==
    /\ heap = <<>>
    /\ root = None
    /\ merges = 0
    /\ code_table = <<>>
    /\ encoded_text = <<>>

NoDecode ==
    /\ decode_table = <<>>
    /\ encoded_message = <<>>
    /\ decoded_message = <<>>
    /\ passes = 0
    /\ result = <<>>

NoFiles ==
    /\ txt = <<>>
    /\ bin = <<>>
    /\ origin = NoOrigin
    /\ image_out = NoImage
    /\ frame = NoFrame

\* a HuffmanTree is constructed for a symbol stream
CoreInit ==
    /\ pc = "build_tree"
    /\ op = "adaptive_huffman_encoding"
    /\ outcome = "none"
    /\ symbols \in CoreInputs
    /\ TreeInit
    /\ NoDecode
    /\ NoFiles

\* Encoding.decode is entered with a bit string and a table
DecodeInit ==
    /\ pc = "decode"
    /\ op = "decode"
    /\ outcome = "none"
    /\ symbols = <<>>
    /\ TreeInit
    /\ decode_table \in DecodeTables
    /\ encoded_message \in BitStrings
    /\ decoded_message = <<>>
    /\ passes = 0
    /\ result = <<>>
    /\ NoFiles

\* <name>.txt exists, <name>.bin does not
Init ==
    /\ pc = "idle"
    /\ op = "none"
    /\ outcome = "none"
    /\ symbols = <<>>
    /\ TreeInit
    /\ NoDecode
    /\ txt \in FileTexts
    /\ bin = <<>>
    /\ origin = NoOrigin
    /\ image_out = NoImage
    /\ frame = NoFrame

-----------------------------------------------------------------------------
(* HuffmanTree and Encoding, called directly *)

build_tree ==
    /\ pc = "build_tree"
    /\ \E tree \in {BuildTree(symbols)} :
           /\ heap' = tree.heap
           /\ root' = tree.root
           /\ merges' = tree.merges
           /\ pc' = IF tree.raised = "none" THEN "generate_code_table" ELSE "raised"
           /\ outcome' = IF tree.raised = "none" THEN outcome ELSE tree.raised
    /\ UNCHANGED <<op, symbols, code_table, encoded_text, decodeVars, result, frame, fileVars>>

generate_code_table ==
    /\ pc = "generate_code_table"
    /\ code_table' = GenerateCodeTable(heap, root, <<>>, <<>>)
    /\ pc' = "encode"
    /\ UNCHANGED <<op, outcome, symbols, heap, root, merges, encoded_text, decodeVars,
                   result, frame, fileVars>>

encode ==
    /\ pc = "encode"
    /\ IF EncodeRaises(symbols, code_table)
       THEN pc' = "raised" /\ outcome' = "KeyError" /\ UNCHANGED encoded_text
       ELSE /\ encoded_text' = Encode(symbols, code_table, 1)
            /\ pc' = "return"
            /\ outcome' = "ok"
    /\ UNCHANGED <<op, symbols, heap, root, merges, code_table, decodeVars, result,
                   frame, fileVars>>

\* decode(encoded_text, code_table) on what adaptive_huffman_encoding returned
decode ==
    /\ pc = "return"
    /\ op' = "decode"
    /\ pc' = "decode"
    /\ outcome' = "none"
    /\ decode_table' = code_table
    /\ encoded_message' = encoded_text
    /\ decoded_message' = <<>>
    /\ passes' = 0
    /\ UNCHANGED <<treeVars, result, frame, fileVars>>

\* one iteration of "while encoded_message"
decode_while ==
    /\ pc = "decode"
    /\ encoded_message # <<>>
    /\ passes < MaxPasses
    /\ \E after \in {DecodePass(encoded_message, decoded_message, decode_table, 1)} :
           /\ encoded_message' = after.encoded_message
           /\ decoded_message' = after.decoded_message
    /\ passes' = passes + 1
    /\ UNCHANGED <<pc, op, outcome, treeVars, decode_table, result, frame, fileVars>>

\* "return decoded_message" to a direct caller
decode_return ==
    /\ pc = "decode"
    /\ op = "decode"
    /\ encoded_message = <<>>
    /\ result' = decoded_message
    /\ pc' = "done"
    /\ outcome' = "ok"
    /\ UNCHANGED <<op, treeVars, decodeVars, frame, fileVars>>

CoreNext ==
    \/ build_tree
    \/ generate_code_table
    \/ encode
    \/ decode
    \/ decode_while
    \/ decode_return

CoreSpec == CoreInit /\ [][CoreNext]_vars

DecodeNext ==
    \/ decode_while
    \/ decode_return

DecodeSpec == DecodeInit /\ [][DecodeNext]_vars

-----------------------------------------------------------------------------
(* Compresion: the operations on <name>.txt, <name>.bin and the image *)

\* the locals of the HuffmanTree that adaptive_huffman_encoding(text) works on
TreeOf(text, enc) ==
    /\ symbols' = text
    /\ heap' = enc.heap
    /\ root' = enc.root
    /\ merges' = enc.merges
    /\ code_table' = enc.code_table
    /\ encoded_text' = enc.encoded_text

\* lines 169-173 and 179-183: encode, pack the bits, then open and write <name>.bin;
\* an exception of adaptive_huffman_encoding leaves the file as it was
WriteContainer(kind, source, text, meta) ==
    \E enc \in {AdaptiveHuffmanEncoding(text)} :
        /\ TreeOf(text, enc)
        /\ IF enc.raised # "none"
           THEN outcome' = enc.raised /\ UNCHANGED <<bin, origin>>
           ELSE /\ outcome' = "ok"
                /\ bin' = <<Container(enc.code_table, ToBitarray(enc.encoded_text), meta)>>
                /\ origin' = [kind |-> kind, src |-> source]

compress_text ==
    /\ pc = "idle"
    /\ op' = "compress_text"
    /\ WriteContainer("text", txt, txt, <<>>)
    /\ frame' = NoFrame
    /\ UNCHANGED <<pc, decodeVars, result, txt, image_out>>

\* video: what VideoProcessor.binary_to_text(read_video(...)) returned
compress_video ==
    /\ pc = "idle"
    /\ op' = "compress_video"
    /\ \E video \in VideoTexts : WriteContainer("video", video, video, <<>>)
    /\ frame' = NoFrame
    /\ UNCHANGED <<pc, decodeVars, result, txt, image_out>>

\* binarios: what ImagesToTxt.image_to_text returned for a one-row, one-channel image
compress_image ==
    /\ pc = "idle"
    /\ op' = "compress_image"
    /\ \E binarios \in ImageBytes :
       \E width \in {Len(binarios)}, height \in {1}, channels \in {1} :
       \E paddinf \in {Paddinf(JoinBits(binarios, 1))} :
       \E cadena_bits \in {PadBits(JoinBits(binarios, 1), paddinf)} :
          /\ frame' = [width |-> width, height |-> height, channels |-> channels,
                       padding |-> paddinf, cadena_bits |-> cadena_bits]
          /\ WriteContainer("image", binarios, GroupSymbols(cadena_bits, binarios, 0),
                            <<width, height, channels, paddinf>>)
    /\ UNCHANGED <<pc, decodeVars, result, txt, image_out>>

\* the call decode(text, table) of a decompress operation
EnterDecode(text, table) ==
    /\ pc' = "decode"
    /\ outcome' = "none"
    /\ decode_table' = table
    /\ encoded_message' = text
    /\ decoded_message' = <<>>
    /\ passes' = 0

\* an exception before decode is called
Raise(exception) ==
    /\ outcome' = exception
    /\ UNCHANGED <<pc, decodeVars>>

\* a decompress operation returns: the locals of decode are gone
Return ==
    /\ pc' = "idle"
    /\ outcome' = "ok"
    /\ decode_table' = <<>>
    /\ encoded_message' = <<>>
    /\ decoded_message' = <<>>
    /\ passes' = 0

\* lines 208-210
decompress_text ==
    /\ pc = "idle"
    /\ op' = "decompress_text"
    /\ IF bin = <<>> THEN Raise("FileNotFoundError")
       ELSE IF TupleLen(bin[1]) # 2 THEN Raise("ValueError")
       ELSE EnterDecode(To01(bin[1].bits), bin[1].code_table)
    /\ frame' = NoFrame
    /\ UNCHANGED <<treeVars, result, fileVars>>

\* lines 211-212, once decode has returned
decompress_text_write ==
    /\ pc = "decode"
    /\ op = "decompress_text"
    /\ encoded_message = <<>>
    /\ txt' = decoded_message
    /\ Return
    /\ UNCHANGED <<op, treeVars, result, frame, bin, origin, image_out>>

\* lines 196-201: the padding is cut off the stored bits, then decode is called
decompress_image ==
    /\ pc = "idle"
    /\ op' = "decompress_image"
    /\ IF bin = <<>> THEN Raise("FileNotFoundError") /\ frame' = NoFrame
       ELSE IF TupleLen(bin[1]) # 6 THEN Raise("ValueError") /\ frame' = NoFrame
       ELSE LET meta == bin[1].meta
            IN  /\ frame' = [width |-> meta[1], height |-> meta[2], channels |-> meta[3],
                             padding |-> meta[4], cadena_bits |-> <<>>]
                /\ EnterDecode(StripPadding(To01(bin[1].bits), meta[4]), bin[1].code_table)
    /\ UNCHANGED <<treeVars, result, fileVars>>

\* lines 202-203, once decode has returned
decompress_image_write ==
    /\ pc = "decode"
    /\ op = "decompress_image"
    /\ encoded_message = <<>>
    /\ image_out' = [width |-> frame.width, height |-> frame.height,
                     channels |-> frame.channels, data |-> Utf8Encode(decoded_message, 1)]
    /\ frame' = NoFrame
    /\ Return
    /\ UNCHANGED <<op, treeVars, result, txt, bin, origin>>

Next ==
    \/ compress_text
    \/ compress_video
    \/ compress_image
    \/ decompress_text
    \/ decompress_image
    \/ decode_while
    \/ decompress_text_write
    \/ decompress_image_write

Spec == Init /\ [][Next]_vars

-----------------------------------------------------------------------------
(* Properties of HuffmanTree and Encoding, checked under CoreSpec *)

DistinctSymbols == Range(symbols)

Occurrences(x) == Cardinality({i \in DOMAIN symbols : symbols[i] = x})

Built == pc \in {"generate_code_table", "encode", "return", "decode", "done"}

Tabled == pc \in {"encode", "return", "decode", "done"}

IsLeaf(n) == heap[n].left = None /\ heap[n].right = None

LeafIds == {n \in DOMAIN heap : IsLeaf(n)}

InternalIds == DOMAIN heap \ LeafIds

ParentsOf(n) == {p \in InternalIds : heap[p].left = n \/ heap[p].right = n}

\* C1: for every non-empty symbol stream S, one distinct symbol included,
\* decode(encode(S), table) with the table derived from build_tree(S) returns S.
RoundTrip ==
    (pc = "done" /\ symbols # <<>>) => result = symbols

\* C2: for every input with at least two distinct symbols, no codeword of the
\* derived table is a prefix of another symbol's codeword, and none is empty.
PrefixFree ==
    (Tabled /\ Cardinality(DistinctSymbols) >= 2) =>
        /\ \A i \in DOMAIN code_table : code_table[i][2] # <<>>
        /\ \A i, j \in DOMAIN code_table :
              i # j => ~StartsWith(code_table[j][2], code_table[i][2])

PrefixFreeWitness ==
    /\ pc = "encode"
    /\ Cardinality(DistinctSymbols) >= 3
    /\ \E i, j \in DOMAIN code_table : Len(code_table[i][2]) < Len(code_table[j][2])

\* C3: for an input of one distinct symbol x, build_tree yields a one-leaf tree,
\* the table binds x to a non-empty fallback codeword, and the round trip holds.
SingleSymbol ==
    (pc = "done" /\ Cardinality(DistinctSymbols) = 1) =>
        /\ Len(heap) = 1 /\ IsLeaf(root)
        /\ DictGet(code_table, symbols[1]) # <<>>
        /\ result = symbols

\* C9: for every non-empty input with k distinct symbols, build_tree stops after
\* exactly k-1 merges with one root; the tree is strictly binary, its leaves are
\* the distinct symbols, one leaf each, weighted by their occurrence counts, and
\* every internal node weighs the sum of its two children (the root: len(S)).
TreeShape ==
    Built =>
        /\ merges = Cardinality(DistinctSymbols) - 1
        /\ root \in DOMAIN heap
        /\ Cardinality(LeafIds) = Cardinality(DistinctSymbols)
        /\ Cardinality(InternalIds) = Cardinality(DistinctSymbols) - 1
        /\ \A n \in LeafIds :
              /\ heap[n].symbol \in DistinctSymbols
              /\ heap[n].weight = Occurrences(heap[n].symbol)
        /\ \A x \in DistinctSymbols :
              Cardinality({n \in LeafIds : heap[n].symbol = x}) = 1
        /\ \A n \in InternalIds :
              /\ heap[n].symbol = None
              /\ heap[n].left \in DOMAIN heap /\ heap[n].right \in DOMAIN heap
              /\ heap[n].left # heap[n].right
              /\ heap[n].left < n /\ heap[n].right < n
              /\ heap[n].weight = heap[heap[n].left].weight + heap[heap[n].right].weight
        /\ heap[root].weight = Len(symbols)
        /\ ParentsOf(root) = {}
        /\ \A n \in DOMAIN heap \ {root} : Cardinality(ParentsOf(n)) = 1

\* three symbols, merged by position although the last two leaves are the lightest
TreeShapeWitness ==
    /\ pc = "generate_code_table"
    /\ Cardinality(DistinctSymbols) = 3
    /\ merges = 2
    /\ heap[1].weight > heap[3].weight
    /\ heap[4].left = 1 /\ heap[4].right = 2
    /\ heap[root].left = 3 /\ heap[root].right = 4

-----------------------------------------------------------------------------
(* Properties of Encoding.decode on any bits and table, checked under DecodeSpec *)

NoCodewordMatches ==
    \A i \in DOMAIN decode_table : ~StartsWith(encoded_message, decode_table[i][2])

\* C4: whenever decode stands at a position where the remaining bits are
\* non-empty and no codeword of the table is a prefix of them, it ends in a
\* DecodeDesyncError outcome.
DesyncDetected ==
    [][(pc = "decode" /\ encoded_message # <<>> /\ NoCodewordMatches)
          => (pc' = "raised" /\ outcome' = "DecodeDesyncError")]_vars

\* C10: decode always terminates: an iteration of its while loop that does not
\* leave the loop has consumed at least one bit.
DecodeConsumes ==
    [][(pc = "decode" /\ pc' = "decode")
          => Len(encoded_message') < Len(encoded_message)]_vars

-----------------------------------------------------------------------------
(* Properties of the container operations, checked under Spec *)

CompressOps == {"compress_text", "compress_image", "compress_video"}

\* C5: for a text with at least two distinct characters, compress_text stores
\* (code_table, bits) in <name>.bin with exactly the encoded bit sequence (same
\* bits, same length), decompress_text reads the same bits back, and writes the
\* original text to <name>.txt.
TextRoundTrip ==
    /\ (op = "compress_text" /\ outcome = "ok" /\ Cardinality(Range(symbols)) >= 2) =>
          /\ bin # <<>>
          /\ TupleLen(bin[1]) = 2
          /\ bin[1].code_table = code_table
          /\ Len(bin[1].bits) = Len(encoded_text)
          /\ To01(bin[1].bits) = encoded_text
          /\ origin = [kind |-> "text", src |-> txt]
    /\ (/\ pc = "decode" /\ op = "decompress_text" /\ passes = 0
        /\ origin.kind = "text" /\ Cardinality(Range(origin.src)) >= 2
        /\ symbols = origin.src) =>
          /\ encoded_message = encoded_text
          /\ decode_table = code_table
    /\ (/\ pc = "idle" /\ op = "decompress_text" /\ outcome = "ok"
        /\ origin.kind = "text" /\ Cardinality(Range(origin.src)) >= 2) =>
          txt = origin.src

TextRoundTripWitness ==
    /\ pc = "idle" /\ op = "decompress_text" /\ outcome = "ok"
    /\ origin.kind = "text"
    /\ Cardinality(Range(origin.src)) = 3
    /\ txt = origin.src
    /\ Len(bin[1].bits) = 5

\* C6: compress_image turns every 7-bit group of the zero-padded bit string into
\* one symbol, and after decompress_image the reconstructed stream handed on has
\* the original bit-length and equals the original bits.
ImageRoundTrip ==
    /\ (op = "compress_image" /\ outcome = "ok") =>
          7 * Len(symbols) = Len(frame.cadena_bits)
    /\ (pc = "idle" /\ op = "decompress_image" /\ outcome = "ok" /\ origin.kind = "image") =>
          JoinBits(image_out.data, 1) = JoinBits(origin.src, 1)

\* C7: the padding_bit_count compress_image stores is 0 when the bit-length L of
\* the raw bytes is a multiple of 7 and 7 - (L mod 7) otherwise; it lies in 0..6,
\* L + padding is a multiple of 7, and the bits appended are all zero.
PaddingCount ==
    (op = "compress_image" /\ outcome = "ok") =>
        LET L == 8 * Len(origin.src)
            padding == bin[1].meta[4]
        IN  /\ origin.kind = "image"
            /\ padding = (IF L % 7 = 0 THEN 0 ELSE 7 - (L % 7))
            /\ padding \in 0..6
            /\ (L + padding) % 7 = 0
            /\ Len(frame.cadena_bits) = L + padding
            /\ SubSeq(frame.cadena_bits, 1, L) = JoinBits(origin.src, 1)
            /\ \A i \in (L + 1)..(L + padding) : frame.cadena_bits[i] = "0"

PaddingCountWitness ==
    /\ op = "compress_image" /\ outcome = "ok"
    /\ Len(origin.src) = 3
    /\ bin[1].meta[4] = 4
    /\ frame.cadena_bits[8] = "1"
    /\ frame.cadena_bits[28] = "0"

\* C8: a compress operation whose symbol stream is empty ends in the error
\* build_tree raises, with no root produced and <name>.bin neither created nor
\* modified.
EmptyInputRejected ==
    [][(pc = "idle" /\ op' \in CompressOps /\ symbols' = <<>>)
          => (outcome' = "IndexError" /\ root' = None /\ bin' = bin)]_vars

EmptyInputRejectedWitness ==
    /\ op = "compress_text" /\ outcome = "IndexError"
    /\ symbols = <<>> /\ txt = <<>>
    /\ root = None
    /\ bin # <<>>

====
